---------------------------- MODULE Spec2Model ----------------------------
(***************************************************************************)
(* Model of start_server.py: main() checks that the required application   *)
(* files exist, creates a socketserver.TCPServer on localhost:8000, prints *)
(* a banner, tries to open a browser and serves until interrupted.         *)
(*                                                                         *)
(* The program is a single thread; pc is the statement about to run.       *)
(* The environment contributes the files on disk, the platform (which      *)
(* fixes the errno of "address already in use"), whether another listener  *)
(* holds the port, the outcome of the library calls, client requests, and  *)
(* one SIGINT (KeyboardInterrupt), delivered at most once per run, inside  *)
(* the try block of lines 41-68.  print() is taken not to raise.           *)
(*                                                                         *)
(* socketserver.BaseServer is modelled by what the code relies on:         *)
(*   __init__       creates the Event __is_shut_down (unset)               *)
(*   serve_forever  clears the Event, loops, and in its finally block      *)
(*                  resets __shutdown_request and sets the Event           *)
(*   shutdown       sets __shutdown_request and waits for the Event; it    *)
(*                  does not close the listening socket (server_close      *)
(*                  does, and main never calls it)                         *)
(***************************************************************************)
EXTENDS Integers, Sequences, FiniteSets, TLC

VARIABLES
    required_files,   \* line 26: the ordered list of required paths
    disk,             \* the paths that exist under script_dir
    platform,         \* the OS the script runs on
    portBusy,         \* another listener already holds (HOST, PORT)
    pc,               \* the statement of main() about to run
    i,                \* position of the for loops of lines 29 and 35
    missing_files,    \* line 27
    out,              \* what print() has written, as <<message, argument>>
    httpd,            \* the local name httpd: "unbound" or "server"
    listening,        \* the listening socket is bound to (HOST, PORT)
    is_shut_down,     \* BaseServer.__is_shut_down (threading.Event)
    shutdown_request, \* BaseServer.__shutdown_request
    exc,              \* the exception a handler of main is handling
    errno,            \* e.errno of that exception (0: none)
    intr,             \* "none", or the pc at which SIGINT was delivered
    bindAttempts,     \* calls of TCPServer() that reached bind()
    browserAttempts,  \* calls of webbrowser.open()
    browserRaised,    \* webbrowser.open() raised
    releases,         \* times the bound port has been released
    served,           \* requests handled by the serve loop
    exitCode,         \* process exit status (-1: still running)
    exitVia           \* "none", "sys.exit", or "unhandled" (traceback)

vars == <<required_files, disk, platform, portBusy, pc, i, missing_files, out,
          httpd, listening, is_shut_down, shutdown_request, exc, errno, intr,
          bindAttempts, browserAttempts, browserRaised, releases, served,
          exitCode, exitVia>>

----------------------------------------------------------------------------
(* Bounds *)

MaxLen == 3        \* longest required-file list drawn for the preflight check
MaxRequests == 2   \* client requests handled before the model stops counting

----------------------------------------------------------------------------
(* Configuration and environment *)

PORT == 8000

RequiredFiles == <<"index.html", "js/app.js">>

Paths == {"index.html", "js/app.js", "demo.html"}

Platforms == {"darwin", "linux", "win32"}

\* errno of "address already in use" as bind() reports it on each platform
EADDRINUSE(p) == CASE p = "darwin" -> 48
                   [] p = "linux"  -> 98
                   [] p = "win32"  -> 10048

\* other errno values bind() can fail with (EACCES)
OtherBindErrnos == {13}

BoundedSeq(S, n) == UNION {[1..k -> S] : k \in 0..n}

----------------------------------------------------------------------------
(* Python exception classes, as the except clauses of main() match them *)

IsException(kind) == kind # "KeyboardInterrupt"

IsOSError(kind) == kind = "OSError"

\* the outer handlers of lines 70-85, tried in order
OuterHandler(kind) ==
    IF kind = "KeyboardInterrupt" THEN "except_kbd"
    ELSE IF IsOSError(kind) THEN "except_oserror"
    ELSE IF IsException(kind) THEN "except_exception"
    ELSE "unhandled"

\* a mutant: the inner handler written as `except webbrowser.Error`
InnerCatchesOnlyBrowserError(kind) == kind = "webbrowser.Error"

\* line 63: `except Exception as e`
InnerCatches(kind) == IsException(kind)

----------------------------------------------------------------------------
(* Initial states *)

InitProcess ==
    /\ pc = "chdir"
    /\ i = 1
    /\ missing_files = <<>>
    /\ out = <<>>
    /\ httpd = "unbound"
    /\ listening = FALSE
    /\ is_shut_down = FALSE
    /\ shutdown_request = FALSE
    /\ exc = "none"
    /\ errno = 0
    /\ intr = "none"
    /\ bindAttempts = 0
    /\ browserAttempts = 0
    /\ browserRaised = FALSE
    /\ releases = 0
    /\ served = 0
    /\ exitCode = -1
    /\ exitVia = "none"

InitEnv ==
    /\ disk \in SUBSET Paths
    /\ platform \in Platforms
    /\ portBusy \in BOOLEAN

Init ==
    /\ required_files = RequiredFiles
    /\ InitEnv
    /\ InitProcess

\* the preflight check on every required-file list up to MaxLen
PreflightInit ==
    /\ required_files \in BoundedSeq(Paths, MaxLen)
    /\ InitEnv
    /\ InitProcess

----------------------------------------------------------------------------
(* Preflight: lines 22-38 *)

envVars == <<required_files, disk, platform, portBusy>>
serverVars == <<httpd, listening, is_shut_down, shutdown_request>>
excVars == <<exc, errno>>
countVars == <<bindAttempts, browserAttempts, browserRaised, releases, served>>
exitVars == <<exitCode, exitVia>>

Exists(p) == p \in disk

\* a mutant: missing paths are collected in reverse
PrependMissing(m, p) == <<p>> \o m

\* line 31
AppendMissing(m, p) == Append(m, p)

Chdir ==
    /\ pc = "chdir"
    /\ pc' = "check"
    /\ i' = 1
    /\ missing_files' = <<>>
    /\ UNCHANGED <<envVars, out, serverVars, excVars, intr, countVars, exitVars>>

CheckFile ==
    /\ pc = "check"
    /\ i <= Len(required_files)
    /\ missing_files' = IF ~Exists(required_files[i])
                        THEN AppendMissing(missing_files, required_files[i])
                        ELSE missing_files
    /\ i' = i + 1
    /\ UNCHANGED <<envVars, pc, out, serverVars, excVars, intr, countVars, exitVars>>

CheckDone ==
    /\ pc = "check"
    /\ i > Len(required_files)
    /\ pc' = "if_missing"
    /\ UNCHANGED <<envVars, i, missing_files, out, serverVars, excVars, intr,
                   countVars, exitVars>>

IfMissing ==
    /\ pc = "if_missing"
    /\ IF missing_files # <<>>
       THEN /\ pc' = "print_missing"
            /\ out' = Append(out, <<"MissingHeader", "">>)
            /\ i' = 1
       ELSE /\ pc' = "create"
            /\ UNCHANGED <<out, i>>
    /\ UNCHANGED <<envVars, missing_files, serverVars, excVars, intr, countVars,
                   exitVars>>

PrintMissing ==
    /\ pc = "print_missing"
    /\ IF i <= Len(missing_files)
       THEN /\ out' = Append(out, <<"MissingPath", missing_files[i]>>)
            /\ i' = i + 1
            /\ pc' = pc
       ELSE /\ out' = Append(out, <<"MissingFooter", "">>)
            /\ pc' = "exit_missing"
            /\ i' = i
    /\ UNCHANGED <<envVars, missing_files, serverVars, excVars, intr, countVars,
                   exitVars>>

\* sys.exit(): SystemExit leaves main; the OS reclaims a socket still bound
Terminate(code, via) ==
    /\ pc' = "terminated"
    /\ exitCode' = code
    /\ exitVia' = via
    /\ listening' = FALSE
    /\ releases' = IF listening THEN releases + 1 ELSE releases
    /\ UNCHANGED <<envVars, i, missing_files, out, httpd, is_shut_down,
                   shutdown_request, intr, bindAttempts, browserAttempts,
                   browserRaised, served>>

\* a mutant: the missing-files report does not exit
ExitMissingFallsThrough ==
    /\ pc = "exit_missing"
    /\ pc' = "create"
    /\ UNCHANGED <<envVars, i, missing_files, out, serverVars, excVars, intr,
                   countVars, exitVars>>

\* line 38
ExitMissing ==
    /\ pc = "exit_missing"
    /\ Terminate(1, "sys.exit")
    /\ UNCHANGED excVars

----------------------------------------------------------------------------
(* Server bootstrap: lines 41-58 *)

\* an exception raised inside the try block goes to the first matching handler
Raise(kind, e) ==
    /\ exc' = kind
    /\ errno' = e
    /\ pc' = OuterHandler(kind)

\* line 43, bind() fails: TCPServer.__init__ closes its socket and re-raises;
\* httpd is never assigned
CreateServerBindFails ==
    /\ pc = "create"
    /\ \E e \in (IF portBusy THEN {EADDRINUSE(platform)} ELSE OtherBindErrnos) :
          Raise("OSError", e)
    /\ bindAttempts' = bindAttempts + 1
    /\ UNCHANGED <<envVars, i, missing_files, out, serverVars, intr,
                   browserAttempts, browserRaised, releases, served, exitVars>>

\* line 43, the constructor raises something that is no OSError
CreateServerUnexpected ==
    /\ pc = "create"
    /\ Raise("RuntimeError", 0)
    /\ UNCHANGED <<envVars, i, missing_files, out, serverVars, intr, countVars,
                   exitVars>>

\* line 43, bind() and listen() succeed; __init__ made the Event, unset
CreateServerOk ==
    /\ pc = "create"
    /\ ~portBusy
    /\ httpd' = "server"
    /\ listening' = TRUE
    /\ is_shut_down' = FALSE
    /\ shutdown_request' = FALSE
    /\ bindAttempts' = bindAttempts + 1
    /\ pc' = "banner"
    /\ UNCHANGED <<envVars, i, missing_files, out, excVars, intr,
                   browserAttempts, browserRaised, releases, served, exitVars>>

\* lines 45-58
Banner ==
    /\ pc = "banner"
    /\ out' = Append(out, <<"Banner", "">>)
    /\ pc' = "browser"
    /\ UNCHANGED <<envVars, i, missing_files, serverVars, excVars, intr, countVars,
                   exitVars>>

----------------------------------------------------------------------------
(* Browser launch: lines 60-65 *)

\* exceptions webbrowser.open() may raise (KeyboardInterrupt is the Interrupt
\* action)
BrowserExceptions == {"webbrowser.Error", "OSError", "RuntimeError"}

\* line 62 returns (True: launched, False: no browser found); either way no
\* exception, no warning
BrowserOpenReturns ==
    /\ pc = "browser"
    /\ browserAttempts' = browserAttempts + 1
    /\ pc' = "serve"
    /\ UNCHANGED <<envVars, i, missing_files, out, serverVars, excVars, intr,
                   bindAttempts, browserRaised, releases, served, exitVars>>

\* line 62 raises; line 63 catches what it matches, the rest goes outward
BrowserOpenRaises ==
    /\ pc = "browser"
    /\ browserAttempts' = browserAttempts + 1
    /\ browserRaised' = TRUE
    /\ \E kind \in BrowserExceptions :
          IF InnerCatches(kind)
          THEN /\ pc' = "browser_except"
               /\ exc' = kind
               /\ errno' = IF IsOSError(kind) THEN 2 ELSE 0
          ELSE Raise(kind, IF IsOSError(kind) THEN 2 ELSE 0)
    /\ UNCHANGED <<envVars, i, missing_files, out, serverVars, intr,
                   bindAttempts, releases, served, exitVars>>

\* a mutant: the warning handler tries the browser again
BrowserWarnRetries ==
    /\ pc = "browser_except"
    /\ out' = Append(out, <<"BrowserWarning", "">>)
    /\ pc' = "browser"
    /\ UNCHANGED <<envVars, i, missing_files, serverVars, excVars, intr, countVars,
                   exitVars>>

\* lines 64-65
BrowserWarn ==
    /\ pc = "browser_except"
    /\ out' = Append(out, <<"BrowserWarning", "">>)
    /\ pc' = "serve"
    /\ UNCHANGED <<envVars, i, missing_files, serverVars, excVars, intr, countVars,
                   exitVars>>

----------------------------------------------------------------------------
(* Serve loop: line 68, socketserver.BaseServer.serve_forever *)

\* serve_forever() entered: self.__is_shut_down.clear()
ServeForever ==
    /\ pc = "serve"
    /\ is_shut_down' = FALSE
    /\ pc' = "serving"
    /\ UNCHANGED <<envVars, i, missing_files, out, httpd, listening,
                   shutdown_request, excVars, intr, countVars, exitVars>>

\* one pass of the loop with a ready client: _handle_request_noblock()
HandleRequest ==
    /\ pc = "serving"
    /\ ~shutdown_request
    /\ served < MaxRequests
    /\ served' = served + 1
    /\ UNCHANGED <<envVars, pc, i, missing_files, out, serverVars, excVars, intr,
                   bindAttempts, browserAttempts, browserRaised, releases, exitVars>>

\* a mutant: serve_forever() without its finally block
ServeFinallySkipsEvent ==
    /\ pc = "serve_finally"
    /\ shutdown_request' = FALSE
    /\ pc' = OuterHandler(exc)
    /\ UNCHANGED <<envVars, i, missing_files, out, httpd, listening, is_shut_down,
                   excVars, intr, countVars, exitVars>>

\* serve_forever()'s finally block, run as KeyboardInterrupt leaves the loop
ServeFinally ==
    /\ pc = "serve_finally"
    /\ shutdown_request' = FALSE
    /\ is_shut_down' = TRUE
    /\ pc' = OuterHandler(exc)
    /\ UNCHANGED <<envVars, i, missing_files, out, httpd, listening, excVars, intr,
                   countVars, exitVars>>

----------------------------------------------------------------------------
(* SIGINT *)

InterruptiblePcs == {"create", "banner", "browser", "browser_except", "serve",
                     "serving"}

\* KeyboardInterrupt raised in the main thread at the statement about to run
Interrupt ==
    /\ intr = "none"
    /\ pc \in InterruptiblePcs
    /\ intr' = pc
    /\ exc' = "KeyboardInterrupt"
    /\ errno' = 0
    /\ pc' = IF pc = "serving" THEN "serve_finally"
             ELSE OuterHandler("KeyboardInterrupt")
    /\ UNCHANGED <<envVars, i, missing_files, out, serverVars, countVars, exitVars>>

----------------------------------------------------------------------------
(* Handlers: lines 70-85 *)

\* line 71
ExceptKeyboardInterrupt ==
    /\ pc = "except_kbd"
    /\ out' = Append(out, <<"StoppedByUser", "">>)
    /\ pc' = "shutdown"
    /\ UNCHANGED <<envVars, i, missing_files, serverVars, excVars, intr, countVars,
                   exitVars>>

\* line 72 with httpd never assigned: UnboundLocalError, raised inside a
\* handler, so no sibling except clause sees it and it leaves main
ShutdownUnbound ==
    /\ pc = "shutdown"
    /\ httpd = "unbound"
    /\ exc' = "UnboundLocalError"
    /\ errno' = 0
    /\ Terminate(1, "unhandled")

\* line 72, BaseServer.shutdown(): self.__shutdown_request = True, then wait
ShutdownCall ==
    /\ pc = "shutdown"
    /\ httpd = "server"
    /\ shutdown_request' = TRUE
    /\ pc' = "shutdown_wait"
    /\ UNCHANGED <<envVars, i, missing_files, out, httpd, listening, is_shut_down,
                   excVars, intr, countVars, exitVars>>

\* self.__is_shut_down.wait() returns once the Event is set
ShutdownReturns ==
    /\ pc = "shutdown_wait"
    /\ is_shut_down
    /\ pc' = "exit0"
    /\ UNCHANGED <<envVars, i, missing_files, out, serverVars, excVars, intr,
                   countVars, exitVars>>

\* line 73
ExitInterrupted ==
    /\ pc = "exit0"
    /\ Terminate(0, "sys.exit")
    /\ UNCHANGED excVars

\* the errno main() takes for "address already in use"
ADDRESS_IN_USE == 48

\* lines 75-80
ExceptOSError ==
    /\ pc = "except_oserror"
    /\ out' = Append(out, IF errno = ADDRESS_IN_USE
                          THEN <<"PortInUse", ToString(PORT)>>
                          ELSE <<"ErrorStartingServer", "">>)
    /\ pc' = "exit_oserror"
    /\ UNCHANGED <<envVars, i, missing_files, serverVars, excVars, intr, countVars,
                   exitVars>>

\* line 81
ExitOSError ==
    /\ pc = "exit_oserror"
    /\ Terminate(1, "sys.exit")
    /\ UNCHANGED excVars

\* line 84
ExceptException ==
    /\ pc = "except_exception"
    /\ out' = Append(out, <<"UnexpectedError", "">>)
    /\ pc' = "exit_exception"
    /\ UNCHANGED <<envVars, i, missing_files, serverVars, excVars, intr, countVars,
                   exitVars>>

\* line 85
ExitException ==
    /\ pc = "exit_exception"
    /\ Terminate(1, "sys.exit")
    /\ UNCHANGED excVars

----------------------------------------------------------------------------
(* Specifications *)

Preflight == Chdir \/ CheckFile \/ CheckDone \/ IfMissing

\* every step the main thread takes by itself
Control ==
    \/ Preflight
    \/ PrintMissing
    \/ ExitMissing
    \/ CreateServerBindFails
    \/ CreateServerUnexpected
    \/ CreateServerOk
    \/ Banner
    \/ BrowserOpenReturns
    \/ BrowserOpenRaises
    \/ BrowserWarn
    \/ ServeForever
    \/ ServeFinally
    \/ ExceptKeyboardInterrupt
    \/ ShutdownUnbound
    \/ ShutdownCall
    \/ ShutdownReturns
    \/ ExitInterrupted
    \/ ExceptOSError
    \/ ExitOSError
    \/ ExceptException
    \/ ExitException

Next == Control \/ HandleRequest \/ Interrupt

Spec == Init /\ [][Next]_vars

\* the interpreter keeps running the main thread; clients and SIGINT are free
FairSpec == Spec /\ WF_vars(Control)

PreflightSpec == PreflightInit /\ [][Preflight]_vars

\* the lifecycle state of section 4.4, read off the program position
State ==
    IF pc = "terminated" THEN "Stopped"
    ELSE IF pc \in {"except_kbd", "shutdown", "shutdown_wait", "exit0"}
         THEN "ShuttingDown"
    ELSE IF pc \in {"serving", "serve_finally"} THEN "Serving"
    ELSE IF listening THEN "Bound"
    ELSE "NotStarted"

----------------------------------------------------------------------------
(* Properties *)

Printed == {out[k] : k \in 1..Len(out)}

\* the required paths that do not exist, in input order
Absent == SelectSeq(required_files, LAMBDA p : p \notin disk)

AllExist == \A k \in 1..Len(required_files) : required_files[k] \in disk

\* C1: once the preflight loop has finished, missing_files is exactly the
\* sub-sequence of required_files that are not on disk, in input order; it is
\* empty, and the run goes on to create the server, iff every path exists.
C1_MissingListExact ==
    pc \in {"if_missing", "print_missing", "create"} =>
        /\ missing_files = Absent
        /\ (missing_files = <<>>) <=> AllExist
        /\ pc = "create" => AllExist
        /\ pc = "print_missing" => ~AllExist

C1_Witness ==
    /\ pc = "print_missing"
    /\ Len(required_files) = 3
    /\ Len(missing_files) = 2
    /\ missing_files[1] # missing_files[2]

MissingReport ==
    <<<<"MissingHeader", "">>>>
    \o [k \in 1..Len(missing_files) |-> <<"MissingPath", missing_files[k]>>]
    \o <<<<"MissingFooter", "">>>>

\* C2: when a required file is missing, the run never attempts a bind or a
\* browser launch and holds no listener, and it ends by sys.exit(1) having
\* printed exactly the header, each missing path in order, and the footer.
C2_MissingFilesExitBeforeNetwork ==
    (missing_files # <<>> /\ pc \notin {"chdir", "check"}) =>
        /\ pc \in {"if_missing", "print_missing", "exit_missing", "terminated"}
        /\ bindAttempts = 0
        /\ browserAttempts = 0
        /\ ~listening
        /\ httpd = "unbound"
        /\ pc = "terminated" =>
              /\ exitCode = 1
              /\ exitVia = "sys.exit"
              /\ out = MissingReport

C2_Witness ==
    /\ pc = "terminated"
    /\ missing_files = <<"js/app.js">>
    /\ exitCode = 1
    /\ out = MissingReport

\* C3: when the port is occupied and the bind failed, the run ends with the
\* port-in-use message alone, exit code 1 and no browser launch.
C3_PortInUseClassified ==
    (pc = "terminated" /\ portBusy /\ bindAttempts = 1) =>
        /\ out = <<<<"PortInUse", ToString(PORT)>>>>
        /\ exitCode = 1
        /\ browserAttempts = 0

\* C4: an interrupt delivered in the serve loop leads to the stopped state
\* with exit code 0.
C4_InterruptWhileServingExitsZero ==
    (intr = "serving") ~> (State = "Stopped" /\ exitCode = 0 /\ exitVia = "sys.exit")

C4_Witness ==
    /\ intr = "serving"
    /\ State = "Stopped"
    /\ exitCode = 0
    /\ served > 0

FatalMessages == {<<"PortInUse", ToString(PORT)>>, <<"ErrorStartingServer", "">>,
                  <<"UnexpectedError", "">>}

\* C5: once webbrowser.open() has raised, the run never enters the OSError or
\* Exception handler of main and prints none of their messages; the warning is
\* printed (unless SIGINT arrives before the handler's print); and unless the
\* user interrupts, the listener stays bound, the
\* process has not exited and the next thing it does is serve.  The only
\* exit left is the interrupt's, with code 0.
C5_BrowserFailureNonFatal ==
    browserRaised =>
        /\ pc \notin {"except_oserror", "exit_oserror", "except_exception",
                      "exit_exception"}
        /\ Printed \cap FatalMessages = {}
        /\ (pc # "browser_except" /\ intr # "browser_except") =>
              <<"BrowserWarning", "">> \in Printed
        /\ intr = "none" =>
              /\ listening
              /\ exitCode = -1
              /\ pc \in {"browser_except", "serve", "serving"}
        /\ pc = "terminated" => (intr # "none" /\ exitCode = 0)

C5_Witness ==
    /\ browserRaised
    /\ exc = "OSError"
    /\ pc = "serving"
    /\ served > 0
    /\ listening

\* C6: every run that has terminated did so through sys.exit, with code 0
\* exactly when it was stopped by the user and code 1 otherwise.
C6_HandledExitCodes ==
    pc = "terminated" =>
        /\ exitVia = "sys.exit"
        /\ exitCode \in {0, 1}
        /\ (exitCode = 0) <=> (intr # "none")

AllowedTransitions ==
    {<<"NotStarted", "Bound">>, <<"Bound", "Serving">>,
     <<"Serving", "ShuttingDown">>, <<"ShuttingDown", "Stopped">>,
     <<"NotStarted", "Stopped">>}

\* C7: every change of the lifecycle state is one of the listed transitions.
C7_OnlyListedTransitions ==
    [][State' # State => <<State, State'>> \in AllowedTransitions]_vars

\* C8: the port is held while serving, is released at most once, and has been
\* released (once) by the time shutdown() has returned and sys.exit(0) is
\* about to run.
C8_ReleasedOnceDuringShutdown ==
    /\ releases <= 1
    /\ State = "Serving" => listening
    /\ pc = "exit0" => (~listening /\ releases = 1)

\* C9: bind and browser launch are each attempted at most once; a browser
\* launch has been attempted only in a run that passed preflight and bound
\* the listener, which it still holds; and it has been attempted by the time
\* serve_forever() is called.
C9_AtMostOnceAfterBind ==
    /\ bindAttempts <= 1
    /\ browserAttempts <= 1
    /\ browserAttempts = 1 =>
          /\ bindAttempts = 1
          /\ httpd = "server"
          /\ missing_files = <<>>
          /\ pc # "terminated" => listening
    /\ pc \in {"serve", "serving", "serve_finally"} => browserAttempts = 1

C9_Witness ==
    /\ browserAttempts = 1
    /\ bindAttempts = 1
    /\ browserRaised
    /\ pc = "serving"

\* C10: after an interrupt anywhere in the try block the handler's shutdown()
\* is never left waiting for an Event nobody will set, never names an
\* unassigned httpd, and a run that terminated did so with exit code 0.
C10_InterruptAnywhereExitsZero ==
    intr # "none" =>
        /\ ~(pc = "shutdown_wait" /\ ~is_shut_down)
        /\ exc # "UnboundLocalError"
        /\ pc = "terminated" => (exitCode = 0 /\ exitVia = "sys.exit")

=============================================================================
